---- MODULE Spec2Model ----
(***************************************************************************)
(* Behavior tree (behavior_tree.py) and finite state machine               *)
(* (state_machine.py) of the roomba controller.                            *)
(*                                                                         *)
(* Time is counted in integer units, UnitsPerSecond of them to a second;   *)
(* a leaf's elapsed time is call_count * SAMPLE_TIME as in the code.       *)
(* SequenceNode.execute and SelectorNode.execute are modelled one loop     *)
(* iteration at a time (a call stack of composites), so that a loop that   *)
(* does not exit is a behaviour of the model and not a hidden divergence.  *)
(***************************************************************************)
EXTENDS Integers, Sequences, FiniteSets

\* ------------------------------------------------------------- bounds
\* Resolution of the time axis: units per second.
UnitsPerSecond == 1
\* GoBackNode.call_count is never reset and grows without bound: executions
\* of GoBackNode stop being explored when it reaches this many calls.
MaxGoBackCalls == 6
\* RotateNode is explored for this many calls past its longest turning time.
MaxSpin == 2
\* RotateState is explored for this many updates past its longest turning time.
MaxStay == 4

\* ---------------------------------------------------------- constants
\* The options of constants.py (sample_time, go_back_time, ...), which the
\* spec names without values.  The values here are in time units and keep
\* SAMPLE_TIME from dividing the forward threshold, so that rounding up shows.
SAMPLE_TIME == 2
GO_BACK_TIME == 2 * SAMPLE_TIME
MOVE_FORWARD_TIME == 3 * UnitsPerSecond
MOVE_IN_SPIRAL_TIME == 20 * UnitsPerSecond
INITIAL_RADIUS_SPIRAL == 1
SPIRAL_FACTOR == 1
FORWARD_SPEED == "FORWARD_SPEED"
BACKWARD_SPEED == "BACKWARD_SPEED"
ANGULAR_SPEED == "ANGULAR_SPEED"
NEG_ANGULAR_SPEED == "-ANGULAR_SPEED"
ZERO == "0"

\* The literals of MoveForwardNode.execute (time < 3) and of
\* MoveInSpiralNode.execute (time < 20), in seconds.
MoveForwardLimitSeconds == 3
MoveInSpiralLimitSeconds == 20
MoveForwardLimit == MoveForwardLimitSeconds * UnitsPerSecond
MoveInSpiralLimit == MoveInSpiralLimitSeconds * UnitsPerSecond

\* ExecutionStatus, and Python's None for a call that falls off its end.
SUCCESS == "SUCCESS"
FAILURE == "FAILURE"
RUNNING == "RUNNING"
None == "None"
ExecutionStatus == {SUCCESS, FAILURE, RUNNING}

\* ------------------------------------------------------------ the tree
Root == "Root"
SequenceOne == "SequenceOne"
SequenceTwo == "SequenceTwo"
MoveForward == "MoveForward"
MoveInSpiral == "MoveInSpiral"
GoBack == "GoBack"
Rotate == "Rotate"

SequenceNodes == {SequenceOne, SequenceTwo}
SelectorNodes == {Root}
Composites == SequenceNodes \cup SelectorNodes
Leaves == {MoveForward, MoveInSpiral, GoBack, Rotate}
Nodes == Composites \cup Leaves

\* RoombaBehaviorTree.__init__: the children lists after the add_child calls.
children ==
  [c \in Composites |->
     CASE c = Root -> <<SequenceOne, SequenceTwo>>
       [] c = SequenceOne -> <<MoveForward, MoveInSpiral>>
       [] c = SequenceTwo -> <<GoBack, Rotate>>]

\* list.index: the position of the first occurrence.
Index(c, n) ==
  CHOOSE i \in 1..Len(children[c]) :
    /\ children[c][i] = n
    /\ \A j \in 1..(i - 1) : children[c][j] # n

\* TreeNode.parent as set by add_child (None for the root).
Parent(n) ==
  IF \E c \in Composites : \E i \in 1..Len(children[c]) : children[c][i] = n
  THEN CHOOSE c \in Composites : \E i \in 1..Len(children[c]) : children[c][i] = n
  ELSE None

\* An attribute that no statement has assigned yet (call_count before enter).
NoAttr == -1

\* The samples random.uniform can hand to RotateNode.enter: the sign class of
\* uniform(-1, 1) and, in time units, uniform(1, MOVE_FORWARD_TIME), whose
\* end point may or may not be drawn.
Directions == {"positive", "nonpositive"}
TurningTimes == UnitsPerSecond..MOVE_FORWARD_TIME

\* agent.set_velocity(linear, angular); radio is the spiral's radius when the
\* angular speed is ANGULAR_SPEED / radio, and 0 otherwise.
Velocity(linear, angular, radio) ==
  [linear |-> linear, angular |-> angular, radio |-> radio]

VARIABLES
  running_child,             \* composite -> its running child, or None
  call_count,                \* leaf -> self.call_count, or NoAttr
  random_angular_direction,  \* RotateNode's sampled direction, or None
  roomba_turning_time,       \* RotateNode's sampled duration, or NoAttr
  bumper,                    \* agent.get_bumper_state() of the update in progress
  cmds,                      \* the set_velocity calls of the update in progress
  stack,                     \* the composites whose execute is in progress
  mode,                      \* "idle", "start", "loop" or "ret"
  ret,                       \* the node that returned last and its status
  last,                      \* history: node -> what happened to it last
  nexec,                     \* history: leaf -> execute calls since its enter
  act,                       \* history: composite -> events of its activation
  ev,                        \* history: the calls made by the last step
  turned,                    \* history: RotateNode's set_velocity calls since its enter
  harness,                   \* the leaf driven directly, None in the tree
  clear,                     \* history: no contact since the driven leaf's enter
  fsm_state,                 \* FiniteStateMachine.state: the current state object
  fsm_hist                   \* history: what the machine's last update did

vars == <<running_child, call_count, random_angular_direction,
          roomba_turning_time, bumper, cmds, stack, mode, ret,
          last, nexec, act, ev, turned, harness, clear, fsm_state,
          fsm_hist>>

fsmVars == <<fsm_state, fsm_hist>>

\* The attributes of the node objects, as one record.
Heap ==
  [running_child |-> running_child,
   call_count |-> call_count,
   random_angular_direction |-> random_angular_direction,
   roomba_turning_time |-> roomba_turning_time]

\* ------------------------------------------------------------- leaves
\* MoveForwardNode.enter, MoveInSpiralNode.enter.
ResetEnter(h, n) ==
  [h EXCEPT !.call_count[n] = 0]

\* GoBackNode.enter: pass.
GoBackEnter(h) == h

\* RotateNode.enter with the two samples d and t.
RotateEnter(h, d, t) ==
  [h EXCEPT !.call_count[Rotate] = 0,
            !.random_angular_direction = d,
            !.roomba_turning_time = t]

\* SequenceNode.enter, SelectorNode.enter.
CompositeEnter(h, c) ==
  [h EXCEPT !.running_child[c] = None]

\* n.enter(agent), dispatched on the node's class.
Enter(h, n, d, t) ==
  CASE n \in Composites -> CompositeEnter(h, n)
    [] n \in {MoveForward, MoveInSpiral} -> ResetEnter(h, n)
    [] n = GoBack -> GoBackEnter(h)
    [] n = Rotate -> RotateEnter(h, d, t)

\* The result of a leaf's execute: its status, the set_velocity calls it made
\* and its call_count afterwards.
Result(status, commands, count) ==
  [status |-> status, cmds |-> commands, call_count |-> count]

\* MoveForwardNode.execute with the time taken before the counter is advanced.
MoveForwardExecute_CountsLate(count, b) ==
  LET n == count + 1
      time == count * SAMPLE_TIME
  IN IF time < MoveForwardLimit
     THEN IF ~b
          THEN Result(RUNNING, <<Velocity(FORWARD_SPEED, ZERO, 0)>>, n)
          ELSE Result(FAILURE, <<>>, n)
     ELSE Result(SUCCESS, <<>>, n)

MoveForwardExecute(count, b) ==
  LET n == count + 1
      time == n * SAMPLE_TIME
  IN IF time < MoveForwardLimit
     THEN IF ~b
          THEN Result(RUNNING, <<Velocity(FORWARD_SPEED, ZERO, 0)>>, n)
          ELSE Result(FAILURE, <<>>, n)
     ELSE Result(SUCCESS, <<>>, n)

Radio(time) == INITIAL_RADIUS_SPIRAL + (SPIRAL_FACTOR * time)

MoveInSpiralExecute(count, b) ==
  LET n == count + 1
      time == n * SAMPLE_TIME
  IN IF time < MoveInSpiralLimit
     THEN IF ~b
          THEN Result(RUNNING,
                      <<Velocity(FORWARD_SPEED, "ANGULAR_SPEED/radio", Radio(time))>>, n)
          ELSE Result(FAILURE, <<>>, n)
     ELSE Result(SUCCESS, <<>>, n)

\* GoBackNode.execute with >= for >.
GoBackExecute_AtThreshold(count, b) ==
  LET n == count + 1
      time == n * SAMPLE_TIME
  IN IF time >= GO_BACK_TIME /\ ~b
     THEN Result(SUCCESS, <<>>, n)
     ELSE Result(RUNNING, <<Velocity(BACKWARD_SPEED, ZERO, 0)>>, n)

\* GoBackNode.execute ending on time alone.
GoBackExecute_IgnoresBumper(count, b) ==
  LET n == count + 1
      time == n * SAMPLE_TIME
  IN IF time > GO_BACK_TIME
     THEN Result(SUCCESS, <<>>, n)
     ELSE Result(RUNNING, <<Velocity(BACKWARD_SPEED, ZERO, 0)>>, n)

GoBackExecute(count, b) ==
  LET n == count + 1
      time == n * SAMPLE_TIME
  IN IF time > GO_BACK_TIME /\ ~b
     THEN Result(SUCCESS, <<>>, n)
     ELSE Result(RUNNING, <<Velocity(BACKWARD_SPEED, ZERO, 0)>>, n)

\* RotateNode.execute always turning the positive way.
RotateExecute_IgnoresDirection(count, b, d, t) ==
  LET n == count + 1
      time == n * SAMPLE_TIME
  IN IF time < t
     THEN Result(RUNNING, <<Velocity(ZERO, ANGULAR_SPEED, 0)>>, n)
     ELSE IF ~b
          THEN Result(FAILURE, <<>>, n)
          ELSE Result(None, <<>>, n)

RotateExecute(count, b, d, t) ==
  LET n == count + 1
      time == n * SAMPLE_TIME
  IN IF time < t
     THEN IF d = "positive"
          THEN Result(RUNNING, <<Velocity(ZERO, ANGULAR_SPEED, 0)>>, n)
          ELSE Result(RUNNING, <<Velocity(ZERO, NEG_ANGULAR_SPEED, 0)>>, n)
     ELSE IF ~b
          THEN Result(FAILURE, <<>>, n)
          ELSE Result(None, <<>>, n)

\* n.execute(agent) for a leaf n, with the bumper reading b.
LeafExecute(h, n, b) ==
  CASE n = MoveForward -> MoveForwardExecute(h.call_count[n], b)
    [] n = MoveInSpiral -> MoveInSpiralExecute(h.call_count[n], b)
    [] n = GoBack -> GoBackExecute(h.call_count[n], b)
    [] n = Rotate -> RotateExecute(h.call_count[n], b,
                                   h.random_angular_direction,
                                   h.roomba_turning_time)

\* ---------------------------------------------------------- composites
\* What a composite does with its child's status: its attributes afterwards,
\* the status it returns ("loop" when it stays in its while loop) and the
\* child it entered, if any.
Handled(h, outcome, entered) ==
  [heap |-> h, outcome |-> outcome, entered |-> entered]

\* SequenceNode.execute without the reset of running_child on a failure.
SequenceOnStatus_KeepsChild(h, c, status, d, t) ==
  CASE status = FAILURE ->
         Handled(h, FAILURE, None)
    [] status = RUNNING ->
         Handled(h, RUNNING, None)
    [] status = SUCCESS ->
         LET index == Index(c, h.running_child[c])
         IN IF index < Len(children[c])
            THEN LET next == children[c][index + 1]
                 IN Handled(Enter([h EXCEPT !.running_child[c] = next], next, d, t),
                            "loop", next)
            ELSE Handled([h EXCEPT !.running_child[c] = None], SUCCESS, None)
    [] OTHER ->
         Handled(h, "loop", None)

\* SequenceNode.execute going on to the next sibling after a failure.
SequenceOnStatus_AdvancesOnFailure(h, c, status, d, t) ==
  CASE status \in {FAILURE, SUCCESS} ->
         LET index == Index(c, h.running_child[c])
         IN IF index < Len(children[c])
            THEN LET next == children[c][index + 1]
                 IN Handled(Enter([h EXCEPT !.running_child[c] = next], next, d, t),
                            "loop", next)
            ELSE Handled([h EXCEPT !.running_child[c] = None], status, None)
    [] status = RUNNING ->
         Handled(h, RUNNING, None)
    [] OTHER ->
         Handled(h, "loop", None)

\* SequenceNode.execute leaving the next sibling's first execute to the next
\* tick.
SequenceOnStatus_WaitsATick(h, c, status, d, t) ==
  CASE status = FAILURE ->
         Handled([h EXCEPT !.running_child[c] = None], FAILURE, None)
    [] status = RUNNING ->
         Handled(h, RUNNING, None)
    [] status = SUCCESS ->
         LET index == Index(c, h.running_child[c])
         IN IF index < Len(children[c])
            THEN LET next == children[c][index + 1]
                 IN Handled(Enter([h EXCEPT !.running_child[c] = next], next, d, t),
                            RUNNING, next)
            ELSE Handled([h EXCEPT !.running_child[c] = None], SUCCESS, None)
    [] OTHER ->
         Handled(h, "loop", None)

\* The body of the while loop of SequenceNode.execute after the child's
\* execute returned status; d and t are the samples an entered RotateNode draws.
SequenceOnStatus(h, c, status, d, t) ==
  CASE status = FAILURE ->
         Handled([h EXCEPT !.running_child[c] = None], FAILURE, None)
    [] status = RUNNING ->
         Handled(h, RUNNING, None)
    [] status = SUCCESS ->
         LET index == Index(c, h.running_child[c])
         IN IF index < Len(children[c])
            THEN LET next == children[c][index + 1]
                 IN Handled(Enter([h EXCEPT !.running_child[c] = next], next, d, t),
                            "loop", next)
            ELSE Handled([h EXCEPT !.running_child[c] = None], SUCCESS, None)
    [] OTHER ->
         Handled(h, "loop", None)

\* SelectorNode.execute giving up at the first failure.
SelectorOnStatus_FailsFast(h, c, status, d, t) ==
  CASE status = FAILURE ->
         Handled([h EXCEPT !.running_child[c] = None], FAILURE, None)
    [] status = RUNNING ->
         Handled(h, RUNNING, None)
    [] status = SUCCESS ->
         Handled([h EXCEPT !.running_child[c] = None], SUCCESS, None)
    [] OTHER ->
         Handled(h, "loop", None)

\* SelectorNode.execute keeping its last child when all children failed.
SelectorOnStatus_KeepsChild(h, c, status, d, t) ==
  CASE status = FAILURE ->
         LET index == Index(c, h.running_child[c])
         IN IF index < Len(children[c])
            THEN LET next == children[c][index + 1]
                 IN Handled(Enter([h EXCEPT !.running_child[c] = next], next, d, t),
                            "loop", next)
            ELSE Handled(h, FAILURE, None)
    [] status = RUNNING ->
         Handled(h, RUNNING, None)
    [] status = SUCCESS ->
         Handled([h EXCEPT !.running_child[c] = None], SUCCESS, None)
    [] OTHER ->
         Handled(h, "loop", None)

\* The body of the while loop of SelectorNode.execute.
SelectorOnStatus(h, c, status, d, t) ==
  CASE status = FAILURE ->
         LET index == Index(c, h.running_child[c])
         IN IF index < Len(children[c])
            THEN LET next == children[c][index + 1]
                 IN Handled(Enter([h EXCEPT !.running_child[c] = next], next, d, t),
                            "loop", next)
            ELSE Handled([h EXCEPT !.running_child[c] = None], FAILURE, None)
    [] status = RUNNING ->
         Handled(h, RUNNING, None)
    [] status = SUCCESS ->
         Handled([h EXCEPT !.running_child[c] = None], SUCCESS, None)
    [] OTHER ->
         Handled(h, "loop", None)

OnStatus(h, c, status, d, t) ==
  IF c \in SequenceNodes
  THEN SequenceOnStatus(h, c, status, d, t)
  ELSE SelectorOnStatus(h, c, status, d, t)

\* A composite's execute that enters its first child on every call.
CompositeBegin_AlwaysEnters(h, c, d, t) ==
  Handled(Enter([h EXCEPT !.running_child[c] = children[c][1]],
                children[c][1], d, t),
          "loop", children[c][1])

\* The first statement of a composite's execute: with no running child, the
\* first child becomes the running child and is entered.
CompositeBegin(h, c, d, t) ==
  IF h.running_child[c] = None
  THEN Handled(Enter([h EXCEPT !.running_child[c] = children[c][1]],
                     children[c][1], d, t),
               "loop", children[c][1])
  ELSE Handled(h, "loop", None)

\* ------------------------------------------------------------ history
Frame(c) == [node |-> c, iters |-> 0]
Top == stack[Len(stack)]
Pop(s) == SubSeq(s, 1, Len(s) - 1)
OnStack(c) == \E i \in 1..Len(stack) : stack[i].node = c
Calls(entered, executed) == [enter |-> entered, execute |-> executed]
EnterEvent(n) == [op |-> "enter", node |-> n, status |-> None]
ResultEvent(n, status) == [op |-> "result", node |-> n, status |-> status]

\* last and nexec after n was entered (n = None: nobody was).
LastEntered(l, n) == IF n = None THEN l ELSE [l EXCEPT ![n] = "Entered"]
NexecEntered(x, n) == IF n \in Leaves THEN [x EXCEPT ![n] = 0] ELSE x
\* RotateNode's commands of its activation after n was entered, and after n
\* made the set_velocity calls commands.
TurnedEntered(u, n) == IF n = Rotate THEN {} ELSE u
TurnedExecuted(u, n, commands) ==
  IF n = Rotate THEN u \cup {commands[i] : i \in 1..Len(commands)} ELSE u
\* The activation records after composite c entered its child n: c notes the
\* call, and a composite n starts a new activation.
ActEntered(a, c, n) ==
  LET noted == [a EXCEPT ![c] = Append(@, EnterEvent(n))]
  IN IF n \in Composites THEN [noted EXCEPT ![n] = <<>>] ELSE noted
\* The activation record of c after its child n returned status.
ActResult(a, c, n, status) ==
  IF c # None /\ status \in {SUCCESS, FAILURE}
  THEN [a EXCEPT ![c] = Append(@, ResultEvent(n, status))]
  ELSE a

SetHeap(h) ==
  /\ running_child' = h.running_child
  /\ call_count' = h.call_count
  /\ random_angular_direction' = h.random_angular_direction
  /\ roomba_turning_time' = h.roomba_turning_time

CeilDiv(a, b) == (a + b - 1) \div b

\* How far a leaf's counter is followed.
Cap(n) ==
  CASE n = MoveForward -> CeilDiv(MoveForwardLimit, SAMPLE_TIME) + MaxSpin
    [] n = MoveInSpiral -> CeilDiv(MoveInSpiralLimit, SAMPLE_TIME) + MaxSpin
    [] n = GoBack -> MaxGoBackCalls
    [] n = Rotate -> CeilDiv(MOVE_FORWARD_TIME, SAMPLE_TIME) + MaxSpin

\* ------------------------------------------- the finite state machine
MoveForwardState == "MoveForwardState"
MoveInSpiralState == "MoveInSpiralState"
GoBackState == "GoBackState"
RotateState == "RotateState"
States == {MoveForwardState, MoveInSpiralState, GoBackState, RotateState}

\* The constructor of state class cls; d is the direction a RotateState samples.
NewState(cls, d) ==
  [class |-> cls,
   call_count |-> 0,
   time |-> 0,
   random_angular_direction |-> IF cls = RotateState THEN d ELSE None,
   roomba_turning_time |-> NoAttr]

\* What check_transition did: the state object afterwards and the arguments
\* of its change_state calls, in order.
Checked(self, changes) == [self |-> self, changes |-> changes]

\* self.call_count += 1; self.time = self.call_count * SAMPLE_TIME
Ticked(s) ==
  [s EXCEPT !.call_count = s.call_count + 1,
            !.time = (s.call_count + 1) * SAMPLE_TIME]

\* MoveForwardState.check_transition with a time-out edge that ignores the bumper.
MoveForwardStateCheck_BothEdges(s, b, d) ==
  LET self == Ticked(s)
      contact == IF b THEN <<NewState(GoBackState, d)>> ELSE <<>>
      timeout == IF self.time > MOVE_FORWARD_TIME
                 THEN <<NewState(MoveInSpiralState, d)>> ELSE <<>>
  IN Checked(self, contact \o timeout)

\* MoveForwardState.check_transition: two if statements, one after the other.
MoveForwardStateCheck(s, b, d) ==
  LET self == Ticked(s)
      contact == IF b THEN <<NewState(GoBackState, d)>> ELSE <<>>
      timeout == IF self.time > MOVE_FORWARD_TIME /\ ~b
                 THEN <<NewState(MoveInSpiralState, d)>> ELSE <<>>
  IN Checked(self, contact \o timeout)

\* MoveInSpiralState.check_transition with a time-out edge that ignores the bumper.
MoveInSpiralStateCheck_TimeoutWins(s, b, d) ==
  LET self == Ticked(s)
      contact == IF b THEN <<NewState(GoBackState, d)>> ELSE <<>>
      timeout == IF self.time > MOVE_IN_SPIRAL_TIME
                 THEN <<NewState(MoveForwardState, d)>> ELSE <<>>
  IN Checked(self, contact \o timeout)

\* MoveInSpiralState.check_transition.
MoveInSpiralStateCheck(s, b, d) ==
  LET self == Ticked(s)
      contact == IF b THEN <<NewState(GoBackState, d)>> ELSE <<>>
      timeout == IF self.time > MOVE_IN_SPIRAL_TIME /\ ~b
                 THEN <<NewState(MoveForwardState, d)>> ELSE <<>>
  IN Checked(self, contact \o timeout)

\* GoBackState.check_transition: the bumper is not read.
GoBackStateCheck(s, d) ==
  LET self == Ticked(s)
  IN Checked(self, IF self.time > GO_BACK_TIME
                   THEN <<NewState(RotateState, d)>> ELSE <<>>)

\* RotateState.check_transition handing over on time alone.
RotateStateCheck_IgnoresBumper(s, b, d, t) ==
  LET self == [Ticked(s) EXCEPT !.roomba_turning_time = t]
  IN Checked(self, IF self.time > self.roomba_turning_time
                   THEN <<NewState(MoveForwardState, d)>> ELSE <<>>)

\* RotateState.check_transition turning one sample time longer.
RotateStateCheck_TurnsLonger(s, b, d, t) ==
  LET self == [Ticked(s) EXCEPT !.roomba_turning_time = t]
  IN Checked(self, IF ~b /\ self.time > self.roomba_turning_time + SAMPLE_TIME
                   THEN <<NewState(MoveForwardState, d)>> ELSE <<>>)

\* t is the turning time this call samples.
RotateStateCheck(s, b, d, t) ==
  LET self == [Ticked(s) EXCEPT !.roomba_turning_time = t]
  IN Checked(self, IF ~b /\ self.time > self.roomba_turning_time
                   THEN <<NewState(MoveForwardState, d)>> ELSE <<>>)

\* check_transition with a GoBackState that stays while the bumper is set.
CheckTransition_GoBackWaitsForClear(s, b, d, t) ==
  CASE s.class = MoveForwardState -> MoveForwardStateCheck(s, b, d)
    [] s.class = MoveInSpiralState -> MoveInSpiralStateCheck(s, b, d)
    [] s.class = GoBackState ->
         IF b THEN Checked(Ticked(s), <<>>) ELSE GoBackStateCheck(s, d)
    [] s.class = RotateState -> RotateStateCheck(s, b, d, t)

\* state.check_transition(agent, fsm) with the bumper reading b.
CheckTransition(s, b, d, t) ==
  CASE s.class = MoveForwardState -> MoveForwardStateCheck(s, b, d)
    [] s.class = MoveInSpiralState -> MoveInSpiralStateCheck(s, b, d)
    [] s.class = GoBackState -> GoBackStateCheck(s, d)
    [] s.class = RotateState -> RotateStateCheck(s, b, d, t)

\* state.execute(agent): the set_velocity calls it makes.
StateExecute(s) ==
  CASE s.class = MoveForwardState -> <<Velocity(FORWARD_SPEED, ZERO, 0)>>
    [] s.class = MoveInSpiralState ->
         <<Velocity(FORWARD_SPEED, "ANGULAR_SPEED/radio", Radio(s.time))>>
    [] s.class = GoBackState -> <<Velocity(BACKWARD_SPEED, ZERO, 0)>>
    [] s.class = RotateState ->
         IF s.random_angular_direction = "positive"
         THEN <<Velocity(ZERO, ANGULAR_SPEED, 0)>>
         ELSE <<Velocity(ZERO, NEG_ANGULAR_SPEED, 0)>>

\* FiniteStateMachine.state after the change_state calls of a check.
StateAfter(c) ==
  IF c.changes = <<>> THEN c.self ELSE c.changes[Len(c.changes)]

\* The calls of one update, in order.
Call(op, s) == [op |-> op, class |-> s.class, call_count |-> s.call_count]
UpdateCalls(c) ==
  <<Call("check_transition", c.self)>>
  \o [i \in 1..Len(c.changes) |-> Call("change_state", c.changes[i])]
  \o <<Call("execute", StateAfter(c))>>

\* The record of an update: its bumper reading, the state object it checked
\* (after the check), its calls, its set_velocity calls, the set_velocity
\* calls made by the current state object since its construction, and
\* whether every check of the checked object so far read the bumper clear.
History(b, checked, calls, commands, made, noContact) ==
  [bumper |-> b, checked |-> checked, calls |-> calls, cmds |-> commands,
   made |-> made, clear |-> noContact]

\* A RotateState stays for as long as the bumper is set: it is followed for
\* MaxStay updates past the longest turning time.
RotateStateCap == CeilDiv(MOVE_FORWARD_TIME, SAMPLE_TIME) + MaxStay

\* FiniteStateMachine(state) with a freshly constructed state of any class.
FsmConstructed ==
  /\ fsm_state \in {NewState(cls, d) : cls \in States, d \in Directions}
  /\ fsm_hist = History(FALSE, fsm_state, <<>>, <<>>, {}, TRUE)

\* The machine as it stands while the behavior tree is the controller.
FsmParked ==
  /\ fsm_state = NewState(MoveForwardState, None)
  /\ fsm_hist = History(FALSE, fsm_state, <<>>, <<>>, {}, TRUE)

\* What an update did: the machine's state afterwards, the object it
\* checked, the calls and the set_velocity calls it made.
Updated(state, c, calls, commands) ==
  [state |-> state, checked |-> c.self, calls |-> calls, cmds |-> commands]

\* FiniteStateMachine.update with execute called before check_transition.
FiniteStateMachineUpdate_ActsFirst(s, b, d, t) ==
  LET c == CheckTransition(s, b, d, t)
  IN Updated(StateAfter(c), c,
             <<Call("execute", s)>> \o SubSeq(UpdateCalls(c), 1, 1 + Len(c.changes)),
             StateExecute(s))

\* FiniteStateMachine.update on the state s, with the bumper reading b and
\* the samples d, t.
FiniteStateMachineUpdate(s, b, d, t) ==
  LET c == CheckTransition(s, b, d, t)
  IN Updated(StateAfter(c), c, UpdateCalls(c), StateExecute(StateAfter(c)))

\* One update of the machine, as a step.
FsmUpdate(b, d, t) ==
  /\ fsm_state.class = RotateState => fsm_state.call_count < RotateStateCap
  /\ LET u == FiniteStateMachineUpdate(fsm_state, b, d, t)
         before == IF u.state = u.checked THEN fsm_hist.made ELSE {}
     IN /\ fsm_state' = u.state
        /\ fsm_hist' = History(b, u.checked, u.calls, u.cmds,
                               before \cup {u.cmds[i] : i \in 1..Len(u.cmds)},
                               (fsm_state.call_count = 0 \/ fsm_hist.clear) /\ ~b)
  /\ UNCHANGED <<running_child, call_count, random_angular_direction,
                 roomba_turning_time, bumper, cmds, stack, mode, ret,
                 last, nexec, act, ev, turned, harness, clear>>

\* ------------------------------------------------------------ actions
\* RoombaBehaviorTree(): the objects after construction.
Constructed ==
  /\ running_child = [c \in Composites |-> None]
  /\ call_count = [n \in Leaves |-> IF n = GoBack THEN 0 ELSE NoAttr]
  /\ random_angular_direction = None
  /\ roomba_turning_time = NoAttr
  /\ bumper = FALSE
  /\ cmds = <<>>
  /\ stack = <<>>
  /\ mode = "idle"
  /\ ret = [node |-> None, status |-> None]
  /\ last = [n \in Nodes |-> "NotEntered"]
  /\ nexec = [n \in Leaves |-> 0]
  /\ act = [c \in Composites |-> <<>>]
  /\ ev = Calls(None, None)
  /\ turned = {}
  /\ clear = TRUE

Init ==
  /\ Constructed
  /\ harness = None
  /\ FsmParked

\* BehaviorTree.update with the bumper reading b of this tick: the root is
\* not None, and its execute is called.
Update(b) ==
  /\ mode = "idle"
  /\ harness = None
  /\ bumper' = b
  /\ cmds' = <<>>
  /\ stack' = <<Frame(Root)>>
  /\ mode' = "start"
  /\ last' = [last EXCEPT ![Root] = "Executing"]
  /\ ev' = Calls(None, Root)
  /\ act' = IF running_child[Root] = None THEN [act EXCEPT ![Root] = <<>>] ELSE act
  /\ UNCHANGED <<running_child, call_count, random_angular_direction,
                 roomba_turning_time, ret, nexec, turned, harness, clear>>
  /\ UNCHANGED fsmVars

\* The if statement that opens SequenceNode.execute and SelectorNode.execute.
CompositeStart ==
  /\ mode = "start"
  /\ \E d \in Directions, t \in TurningTimes :
       LET c == Top.node
           r == CompositeBegin(Heap, c, d, t)
       IN /\ SetHeap(r.heap)
          /\ last' = LastEntered(last, r.entered)
          /\ nexec' = NexecEntered(nexec, r.entered)
          /\ act' = IF r.entered = None THEN act
                    ELSE ActEntered([act EXCEPT ![c] = <<>>], c, r.entered)
          /\ turned' = TurnedEntered(turned, r.entered)
          /\ ev' = Calls(r.entered, None)
  /\ mode' = "loop"
  /\ UNCHANGED <<bumper, cmds, stack, ret, harness, clear>>
  /\ UNCHANGED fsmVars

\* status = self.running_child.execute(agent), the running child a leaf.
ExecuteLeaf ==
  /\ mode = "loop"
  /\ running_child[Top.node] \in Leaves
  /\ call_count[running_child[Top.node]] < Cap(running_child[Top.node])
  /\ LET c == Top.node
         n == running_child[c]
         r == LeafExecute(Heap, n, bumper)
     IN /\ call_count' = [call_count EXCEPT ![n] = r.call_count]
        /\ cmds' = cmds \o r.cmds
        /\ ret' = [node |-> n, status |-> r.status]
        /\ stack' = [stack EXCEPT ![Len(stack)].iters = @ + 1]
        /\ last' = [last EXCEPT ![n] = r.status]
        /\ nexec' = [nexec EXCEPT ![n] = @ + 1]
        /\ act' = ActResult(act, c, n, r.status)
        /\ turned' = TurnedExecuted(turned, n, r.cmds)
        /\ ev' = Calls(None, n)
  /\ mode' = "ret"
  /\ UNCHANGED <<running_child, random_angular_direction, roomba_turning_time,
                 bumper, harness, clear>>
  /\ UNCHANGED fsmVars

\* status = self.running_child.execute(agent), the running child a composite.
ExecuteComposite ==
  /\ mode = "loop"
  /\ running_child[Top.node] \in Composites
  /\ LET n == running_child[Top.node]
     IN /\ stack' = Append([stack EXCEPT ![Len(stack)].iters = @ + 1], Frame(n))
        /\ last' = [last EXCEPT ![n] = "Executing"]
        /\ ev' = Calls(None, n)
  /\ mode' = "start"
  /\ UNCHANGED <<running_child, call_count, random_angular_direction,
                 roomba_turning_time, bumper, cmds, ret, nexec, act, turned,
                 harness, clear>>
  /\ UNCHANGED fsmVars

\* The if/elif chain on status of the composite on top of the stack: it
\* returns to its caller, or stays in its loop.
HandleStatus ==
  /\ mode = "ret"
  /\ stack # <<>>
  /\ \E d \in Directions, t \in TurningTimes :
       LET c == Top.node
           r == OnStatus(Heap, c, ret.status, d, t)
       IN /\ SetHeap(r.heap)
          /\ IF r.outcome = "loop"
             THEN /\ mode' = "loop"
                  /\ stack' = stack
                  /\ ret' = ret
                  /\ last' = LastEntered(last, r.entered)
                  /\ act' = IF r.entered = None THEN act
                            ELSE ActEntered(act, c, r.entered)
             ELSE /\ mode' = "ret"
                  /\ stack' = Pop(stack)
                  /\ ret' = [node |-> c, status |-> r.outcome]
                  /\ last' = [LastEntered(last, r.entered) EXCEPT ![c] = r.outcome]
                  /\ act' = ActResult(IF r.entered = None THEN act
                                      ELSE ActEntered(act, c, r.entered),
                                      Parent(c), c, r.outcome)
          /\ nexec' = NexecEntered(nexec, r.entered)
          /\ turned' = TurnedEntered(turned, r.entered)
          /\ ev' = Calls(r.entered, None)
  /\ UNCHANGED <<bumper, cmds, harness, clear>>
  /\ UNCHANGED fsmVars

\* root.execute returned to BehaviorTree.update, which drops the status.
UpdateReturn ==
  /\ mode = "ret"
  /\ stack = <<>>
  /\ mode' = "idle"
  /\ bumper' = FALSE
  /\ cmds' = <<>>
  /\ ev' = Calls(None, None)
  /\ UNCHANGED <<running_child, call_count, random_angular_direction,
                 roomba_turning_time, stack, ret, last, nexec, act, turned,
                 harness, clear>>
  /\ UNCHANGED fsmVars

Next ==
  \/ \E b \in BOOLEAN : Update(b)
  \/ CompositeStart
  \/ ExecuteLeaf
  \/ ExecuteComposite
  \/ HandleStatus
  \/ UpdateReturn

Spec == Init /\ [][Next]_vars

\* ------------------------------------------------- a leaf on its own
\* One leaf, freshly constructed, with enter and execute called on it
\* directly, in any order and with any bumper readings.
LeafInit ==
  /\ Constructed
  /\ harness \in Leaves
  /\ FsmParked

\* harness.enter(agent)
LeafEnter ==
  /\ harness # None
  /\ \E d \in Directions, t \in TurningTimes :
       SetHeap(Enter(Heap, harness, d, t))
  /\ last' = LastEntered(last, harness)
  /\ nexec' = NexecEntered(nexec, harness)
  /\ ev' = Calls(harness, None)
  /\ cmds' = <<>>
  /\ turned' = TurnedEntered(turned, harness)
  /\ clear' = TRUE
  /\ UNCHANGED <<bumper, stack, mode, ret, act, harness>>
  /\ UNCHANGED fsmVars

\* harness.execute(agent) with the bumper reading b; the leaf's attributes
\* must exist (call_count is created by enter in three of the leaves).
LeafRun(b) ==
  /\ harness # None
  /\ call_count[harness] # NoAttr
  /\ call_count[harness] < Cap(harness)
  /\ LET r == LeafExecute(Heap, harness, b)
     IN /\ call_count' = [call_count EXCEPT ![harness] = r.call_count]
        /\ cmds' = r.cmds
        /\ ret' = [node |-> harness, status |-> r.status]
        /\ last' = [last EXCEPT ![harness] = r.status]
        /\ turned' = TurnedExecuted(turned, harness, r.cmds)
  /\ bumper' = b
  /\ clear' = (clear /\ ~b)
  /\ nexec' = [nexec EXCEPT ![harness] = @ + 1]
  /\ ev' = Calls(None, harness)
  /\ UNCHANGED <<running_child, random_angular_direction, roomba_turning_time,
                 stack, mode, act, harness>>
  /\ UNCHANGED fsmVars

LeafNext ==
  \/ LeafEnter
  \/ \E b \in BOOLEAN : LeafRun(b)

LeafSpec == LeafInit /\ [][LeafNext]_vars

\* ------------------------------------------- the machine on its own
FsmInit ==
  /\ Constructed
  /\ harness = None
  /\ FsmConstructed

FsmNext ==
  \E b \in BOOLEAN, d \in Directions, t \in TurningTimes : FsmUpdate(b, d, t)

FsmSpec == FsmInit /\ [][FsmNext]_vars

\* --------------------------------- a leaf and the machine side by side
PairInit ==
  /\ Constructed
  /\ harness \in Leaves
  /\ FsmConstructed

PairNext ==
  \/ LeafEnter
  \/ \E b \in BOOLEAN : LeafRun(b)
  \/ \E b \in BOOLEAN, d \in Directions, t \in TurningTimes : FsmUpdate(b, d, t)

PairSpec == PairInit /\ [][PairNext]_vars


\* ------------------------------------------------------------- claims
\* The child's status st is back in c's loop and c has not looked at it yet.
Pending(c, st) ==
  /\ mode = "ret"
  /\ stack # <<>>
  /\ Top.node = c
  /\ ret.node = running_child[c]
  /\ ret.status = st

\* c's execute has returned st and c has been neither entered nor executed since.
Returned(c, st) ==
  /\ ~OnStack(c)
  /\ last[c] = st

IsEnter(e) == e.op = "enter"
IsResult(e, st) == e.op = "result" /\ e.status = st

\* C1: a composite that was just entered, or whose execute returned Success or
\* Failure, has no running child; one whose execute returned Running has one;
\* and a composite that is not executing has a running child only after its
\* execute returned Running.
C1_RunningChildNullUnlessRunning ==
  \A c \in Composites :
    /\ last[c] \in {"Entered", SUCCESS, FAILURE} => running_child[c] = None
    /\ last[c] = RUNNING => running_child[c] # None
    /\ (running_child[c] # None /\ ~OnStack(c)) => last[c] = RUNNING

\* A sequence has failed while another, resumed on its second child, is running.
C1_Witness ==
  /\ last[SequenceOne] = FAILURE
  /\ last[SequenceTwo] = RUNNING
  /\ last[Root] = RUNNING
  /\ running_child[SequenceTwo] = Rotate

\* C2: every execute call returns Success, Failure or Running.
C2_ExecuteReturnsAStatus ==
  ret.node # None => ret.status \in ExecutionStatus

\* C3: the while loop of a composite's execute exits within the update: every
\* iteration that does not return moves on to the next child, so a call runs
\* at most one iteration per child.
C3_LoopExits ==
  \A i \in 1..Len(stack) : stack[i].iters <= Len(children[stack[i].node])

\* C4: enter resets a leaf's tick counter, so the counter of a leaf that has
\* been entered counts the execute calls of its current activation.
C4_EnterResetsCounter ==
  \A n \in Leaves : last[n] # "NotEntered" => call_count[n] = nexec[n]

\* C5: once a child of a sequence has returned Failure, that is the last event
\* of the sequence's activation (no sibling is entered or executed after it), and
\* the sequence returns Failure from the call that received it.
C5_SequenceFailsAtOnce ==
  \A c \in SequenceNodes :
    \A i \in 1..Len(act[c]) :
      IsResult(act[c][i], FAILURE) =>
        /\ i = Len(act[c])
        /\ \/ Pending(c, FAILURE) /\ ret.node = act[c][i].node
           \/ Returned(c, FAILURE) /\ running_child[c] = None

\* SequenceOne has returned Failure on its first child; MoveInSpiral was not
\* entered.
C5_Witness ==
  /\ mode = "ret"
  /\ ret = [node |-> SequenceOne, status |-> FAILURE]
  /\ act[SequenceOne] = <<EnterEvent(MoveForward), ResultEvent(MoveForward, FAILURE)>>

\* C6: once a child of a selector has returned Success, no sibling is entered
\* after it and the selector returns Success from the call that received it;
\* a selector that has returned Failure has, in this activation, entered each
\* of its N children in turn and got Failure from each, the N-th last.
C6_SelectorShortCircuits ==
  \A c \in SelectorNodes :
    /\ \A i \in 1..Len(act[c]) :
         IsResult(act[c][i], SUCCESS) =>
           /\ i = Len(act[c])
           /\ \/ Pending(c, SUCCESS) /\ ret.node = act[c][i].node
              \/ Returned(c, SUCCESS) /\ running_child[c] = None
    /\ last[c] = FAILURE =>
         /\ Len(act[c]) = 2 * Len(children[c])
         /\ \A k \in 1..Len(children[c]) :
              /\ act[c][2 * k - 1] = EnterEvent(children[c][k])
              /\ act[c][2 * k] = ResultEvent(children[c][k], FAILURE)

\* Root has returned Failure.
C6_Witness ==
  /\ mode = "ret"
  /\ stack = <<>>
  /\ ret = [node |-> Root, status |-> FAILURE]

\* C7, the order of a sequence's activation: the k-th child entered is the
\* k-th child of the list.
C7_InOrder(c) ==
  LET enters == SelectSeq(act[c], IsEnter)
  IN /\ Len(enters) <= Len(children[c])
     /\ \A k \in 1..Len(enters) : enters[k].node = children[c][k]

\* C7, the end of a sequence's activation: it has returned Success only with
\* the Success of its last child as the last event, and that event leads to
\* nothing but its own Success.
C7_SuccessWithLast(c) ==
  LET lastChild == children[c][Len(children[c])]
  IN /\ last[c] = SUCCESS =>
          /\ act[c] # <<>>
          /\ act[c][Len(act[c])] = ResultEvent(lastChild, SUCCESS)
     /\ \A i \in 1..Len(act[c]) :
          act[c][i] = ResultEvent(lastChild, SUCCESS) =>
            /\ i = Len(act[c])
            /\ Pending(c, SUCCESS) \/ Returned(c, SUCCESS)

\* C7: a sequence that gets Success from a child that is not its last enters the
\* next child in the same step and stays in the same call; whatever child is the
\* running child in the loop is executed next; children are entered in list
\* order; and the sequence returns Success exactly with its last child's Success.
C7_SequenceChains ==
  [][\A c \in SequenceNodes :
       /\ (Pending(c, SUCCESS) /\ Index(c, ret.node) < Len(children[c])) =>
            /\ mode' = "loop"
            /\ stack' = stack
            /\ running_child'[c] = children[c][Index(c, ret.node) + 1]
            /\ ev'.enter = children[c][Index(c, ret.node) + 1]
       /\ (mode = "loop" /\ Top.node = c) => ev'.execute = running_child[c]
       /\ C7_InOrder(c)'
       /\ C7_SuccessWithLast(c)']_vars

\* Rotate runs for the first time in the update in which GoBack returned Success.
C7_Witness ==
  /\ mode = "ret"
  /\ ret.node = Rotate
  /\ nexec[Rotate] = 1
  /\ Len(stack) = 2
  /\ stack[2] = [node |-> SequenceTwo, iters |-> 2]
  /\ act[SequenceTwo][2] = ResultEvent(GoBack, SUCCESS)

\* C8: a child of a composite is entered only when it is not active (never
\* entered before, or its last execute returned Success or Failure), and is
\* executed only when it has been entered and has not returned Success or
\* Failure since: one enter per activation, before the first execute, and none
\* after an execute that returned Running.
C8_EnterOncePerActivation ==
  [][\A n \in Nodes \ {Root} :
       /\ ev'.enter = n => last[n] \in {"NotEntered", SUCCESS, FAILURE}
       /\ ev'.execute = n => last[n] \in {"Entered", RUNNING, None}]_vars

\* MoveInSpiral, resumed after a Running, has just been executed again.
C8_Witness ==
  /\ ev.execute = MoveInSpiral
  /\ nexec[MoveInSpiral] >= 2
  /\ last[SequenceOne] = "Executing"

\* C9: the k-th execute of MoveForwardNode after its enter, with T = SAMPLE_TIME
\* and F the threshold of the code: for k < ceil(F/T) and the bumper clear it
\* returns Running and commands (FORWARD_SPEED, 0); for k >= ceil(F/T) it
\* returns Success whatever the bumper.
C9_MoveForwardTicks ==
  (harness = MoveForward /\ ev.execute = MoveForward) =>
    LET k == nexec[MoveForward]
        K == CeilDiv(MoveForwardLimit, SAMPLE_TIME)
    IN /\ (k < K /\ ~bumper) =>
            /\ ret.status = RUNNING
            /\ cmds = <<Velocity(FORWARD_SPEED, ZERO, 0)>>
       /\ k >= K => ret.status = SUCCESS

\* Call number ceil(F/T), not the first, returns Success with the bumper set.
C9_Witness ==
  /\ harness = MoveForward
  /\ ev.execute = MoveForward
  /\ nexec[MoveForward] = CeilDiv(MoveForwardLimit, SAMPLE_TIME)
  /\ nexec[MoveForward] > 1
  /\ MoveForwardLimit % SAMPLE_TIME # 0
  /\ bumper
  /\ ret.status = SUCCESS

\* C10: GoBackNode in its first activation (its counter started from zero), with
\* N = GO_BACK_TIME / SAMPLE_TIME: calls 1..N return Running and command
\* (BACKWARD_SPEED, 0), and call N+1 with the bumper clear returns Success.
C10_GoBackTicks ==
  (/\ harness = GoBack
   /\ ev.execute = GoBack
   /\ call_count[GoBack] = nexec[GoBack]
   /\ GO_BACK_TIME = (GO_BACK_TIME \div SAMPLE_TIME) * SAMPLE_TIME) =>
    LET k == nexec[GoBack]
        N == GO_BACK_TIME \div SAMPLE_TIME
    IN /\ k <= N =>
            /\ ret.status = RUNNING
            /\ cmds = <<Velocity(BACKWARD_SPEED, ZERO, 0)>>
       /\ (k = N + 1 /\ ~bumper) => ret.status = SUCCESS

\* Call N+1 of the first activation has returned Success.
C10_Witness ==
  /\ harness = GoBack
  /\ ev.execute = GoBack
  /\ call_count[GoBack] = nexec[GoBack]
  /\ nexec[GoBack] = (GO_BACK_TIME \div SAMPLE_TIME) + 1
  /\ GO_BACK_TIME \div SAMPLE_TIME >= 2
  /\ ~bumper
  /\ ret.status = SUCCESS

\* ------------------------------------------------ the state machine
FsmUpdated == fsmVars' # fsmVars
ChangedState == fsm_hist.checked # fsm_state
Executes(calls) == {i \in 1..Len(calls) : calls[i].op = "execute"}
ChangeStates(calls) == {i \in 1..Len(calls) : calls[i].op = "change_state"}

\* C11: an update first calls check_transition on the state it started in,
\* and only then execute, once, on the state it ends in: after a transition
\* the command of the update is the new state's and not the old state's.
C11_TransitionBeforeAction ==
  [][FsmUpdated =>
       LET h == fsm_hist'
           n == Len(h.calls)
       IN /\ h.checked.class = fsm_state.class
          /\ h.checked.call_count = fsm_state.call_count + 1
          /\ h.calls[1] = Call("check_transition", h.checked)
          /\ h.calls[n] = Call("execute", fsm_state')
          /\ Executes(h.calls) = {n}
          /\ h.cmds = StateExecute(fsm_state')
          /\ fsm_state' # h.checked =>
               /\ fsm_state'.call_count = 0
               /\ h.cmds # StateExecute(h.checked)]_vars
C11_Witness ==
  /\ ChangedState
  /\ fsm_hist.checked.class = MoveForwardState
  /\ fsm_state.class = MoveInSpiralState
  /\ fsm_hist.cmds = StateExecute(fsm_state)

\* C12: an update of MoveForwardState or MoveInSpiralState that reads the
\* bumper set ends in GoBackState and commands (BACKWARD_SPEED, 0), whatever
\* the elapsed time of the state.
C12_ContactGoesBack ==
  [][(/\ FsmUpdated
      /\ fsm_state.class \in {MoveForwardState, MoveInSpiralState}
      /\ fsm_hist'.bumper) =>
       /\ fsm_state'.class = GoBackState
       /\ fsm_hist'.cmds = <<Velocity(BACKWARD_SPEED, ZERO, 0)>>]_vars
\* Contact at a tick where the spiral's time is past its threshold.
C12_Witness ==
  /\ fsm_hist.bumper
  /\ fsm_hist.checked.class = MoveInSpiralState
  /\ fsm_hist.checked.time > MOVE_IN_SPIRAL_TIME
  /\ fsm_state.class = GoBackState
  /\ fsm_hist.cmds = <<Velocity(BACKWARD_SPEED, ZERO, 0)>>

\* The condition under which the machine may go from class from to class to,
\* given the bumper reading b and the elapsed time of the state left.
Edge(from, to, b, time) ==
  CASE from = MoveForwardState ->
         \/ to = GoBackState /\ b
         \/ to = MoveInSpiralState /\ ~b /\ time > MOVE_FORWARD_TIME
    [] from = MoveInSpiralState ->
         \/ to = GoBackState /\ b
         \/ to = MoveForwardState /\ ~b /\ time > MOVE_IN_SPIRAL_TIME
    [] from = GoBackState -> to = RotateState /\ time > GO_BACK_TIME
    [] from = RotateState -> to = MoveForwardState /\ ~b
    [] OTHER -> FALSE

\* C13: the machine's state is always one of the four states, and an update
\* replaces it only along the edges of the transition table: forward to back
\* on contact, forward to spiral and spiral to forward on time-out without
\* contact, spiral to back on contact, back to rotate, rotate to forward
\* with the bumper clear.
C13_OnlySpecifiedEdges ==
  [][/\ fsm_state.class \in States
     /\ fsm_state'.class \in States
     /\ (FsmUpdated /\ fsm_state' # fsm_hist'.checked) =>
          /\ Edge(fsm_state.class, fsm_state'.class, fsm_hist'.bumper,
                  fsm_hist'.checked.time)
          /\ fsm_state' \in {NewState(fsm_state'.class, d) : d \in Directions}
     /\ (FsmUpdated /\ fsm_state' = fsm_hist'.checked) =>
          fsm_state'.class = fsm_state.class]_vars
\* The rotation has handed over to MoveForwardState with the bumper clear.
C13_Witness ==
  /\ fsm_hist.checked.class = RotateState
  /\ fsm_state = NewState(MoveForwardState, fsm_state.random_angular_direction)
  /\ ChangeStates(fsm_hist.calls) # {}
  /\ ~fsm_hist.bumper

\* C14: GoBackState hands over to RotateState at its first check_transition
\* whose count times SAMPLE_TIME exceeds GO_BACK_TIME, with either bumper
\* reading, and stays GoBackState before that: the machine is never in
\* GoBackState with a count above floor(GO_BACK_TIME / SAMPLE_TIME), so it
\* leaves within floor(GO_BACK_TIME / SAMPLE_TIME) + 1 updates of entering.
C14_GoBackLeavesOnTime ==
  [][(fsm_state.class = GoBackState
        => fsm_state.call_count <= GO_BACK_TIME \div SAMPLE_TIME)
     /\ ((FsmUpdated /\ fsm_state.class = GoBackState) =>
           LET k == fsm_hist'.checked.call_count
           IN /\ k = fsm_state.call_count + 1
              /\ k * SAMPLE_TIME > GO_BACK_TIME =>
                   fsm_state' \in {NewState(RotateState, d) : d \in Directions}
              /\ k * SAMPLE_TIME <= GO_BACK_TIME =>
                   fsm_state' = fsm_hist'.checked)]_vars
\* The hand-over at update floor(GO_BACK_TIME / SAMPLE_TIME) + 1, bumper set.
C14_Witness ==
  /\ fsm_hist.checked.class = GoBackState
  /\ fsm_hist.checked.call_count = (GO_BACK_TIME \div SAMPLE_TIME) + 1
  /\ fsm_hist.checked.call_count >= 2
  /\ fsm_hist.bumper
  /\ fsm_state.class = RotateState

\* ----------------------------------------------------------- rotation
\* The in-place turn in the direction d.
Turn(d) ==
  IF d = "positive" THEN Velocity(ZERO, ANGULAR_SPEED, 0)
                    ELSE Velocity(ZERO, NEG_ANGULAR_SPEED, 0)

OneSecond == UnitsPerSecond
\* RotateNode is in an activation: entered, and no Success or Failure since.
RotateNodeActive == last[Rotate] \in {"Entered", RUNNING, None}

Status(n, status) == [node |-> n, status |-> status]
Executing(c) == stack # <<>> /\ Top.node = c
\* Root has returned Failure and no node has returned anything since.
RootFailed == ret = Status(Root, FAILURE)

\* C17: when RotateNode returns Failure, SequenceTwo and then Root return
\* Failure in the same update, which ends there; the next update enters
\* SequenceOne, executes it, enters MoveForwardNode, whose counter is zero
\* then, and executes MoveForwardNode.
C17_RotateFailureRetriesForward ==
  [][/\ (mode = "ret" /\ ret = Status(Rotate, FAILURE)) =>
          /\ Executing(SequenceTwo)
          /\ ret' = Status(SequenceTwo, FAILURE)
          /\ mode' = "ret"
          /\ cmds' = cmds
     /\ (mode = "ret" /\ ret = Status(SequenceTwo, FAILURE)) =>
          /\ Executing(Root)
          /\ ret' = Status(Root, FAILURE)
          /\ mode' = "ret"
          /\ stack' = <<>>
          /\ ev' = Calls(None, None)
          /\ cmds' = cmds
     /\ (mode = "ret" /\ RootFailed) =>
          /\ last[Rotate] = FAILURE
          /\ stack = <<>>
          /\ mode' = "idle"
     /\ (mode = "idle" /\ RootFailed) =>
          /\ mode' = "start"
          /\ ev' = Calls(None, Root)
     /\ (mode = "start" /\ RootFailed) =>
          \/ /\ Executing(Root)
             /\ ev' = Calls(SequenceOne, None)
             /\ running_child'[Root] = SequenceOne
          \/ /\ Executing(SequenceOne)
             /\ ev' = Calls(MoveForward, None)
             /\ running_child'[SequenceOne] = MoveForward
             /\ call_count'[MoveForward] = 0
     /\ (mode = "loop" /\ RootFailed) =>
          \/ /\ Executing(Root)
             /\ ev' = Calls(None, SequenceOne)
          \/ /\ Executing(SequenceOne)
             /\ call_count[MoveForward] = 0
             /\ ev' = Calls(None, MoveForward)
             /\ call_count'[MoveForward] = 1
             /\ ret'.node = MoveForward]_vars
\* MoveForwardNode has been executed for the first time after its enter, in
\* the update after the one in which Rotate, SequenceTwo and Root failed.
C17_Witness ==
  /\ last[Rotate] = FAILURE
  /\ last[SequenceTwo] = FAILURE
  /\ act[Root] = <<EnterEvent(SequenceOne)>>
  /\ act[SequenceOne] = <<EnterEvent(MoveForward)>>
  /\ ret = Status(MoveForward, RUNNING)
  /\ mode = "ret"
  /\ call_count[MoveForward] = 1
  /\ cmds = <<Velocity(FORWARD_SPEED, ZERO, 0)>>

\* ------------------------------------------- the leaves and the states
\* Each timed leaf of the tree with the state of the machine that mirrors it.
Mirrors ==
  {<<MoveForward, MoveForwardState>>,
   <<MoveInSpiral, MoveInSpiralState>>,
   <<GoBack, GoBackState>>}

\* Leaf n has made its k-th execute since its enter, its counter started
\* from zero, and a state object of class cls has had its k-th
\* check_transition, no call of either having read the bumper set.
SameTick(n, cls) ==
  /\ harness = n
  /\ ev.execute = n
  /\ clear
  /\ call_count[n] = nexec[n]
  /\ fsm_hist.calls # <<>>
  /\ fsm_hist.checked.class = cls
  /\ fsm_hist.clear
  /\ fsm_hist.checked.call_count = nexec[n]

\* C18: with the bumper clear on every tick, a fresh state of the machine
\* hands over to its successor at the check_transition call of the same
\* number as the execute call at which the freshly entered leaf it mirrors
\* returns Success.
C18_StatesMirrorLeaves ==
  \A p \in Mirrors :
    SameTick(p[1], p[2]) =>
      (last[p[1]] = SUCCESS <=> fsm_state # fsm_hist.checked)

Backward == Velocity(BACKWARD_SPEED, ZERO, 0)
\* SequenceOne has returned Failure and no node has returned anything since.
ForwardFailed == ret = Status(SequenceOne, FAILURE)

\* C19: when MoveForwardNode or MoveInSpiralNode returns Failure the update
\* has commanded nothing so far; SequenceOne returns Failure, Root enters and
\* executes SequenceTwo, which enters and executes GoBackNode, which commands
\* (BACKWARD_SPEED, 0) and returns Running, whatever its counter; Running is
\* passed up without a further command, so that the update ends with the
\* backward velocity as its only command.
C19_ContactStartsRecovery ==
  [][/\ (mode = "ret" /\ ret.node \in {MoveForward, MoveInSpiral}
           /\ ret.status = FAILURE) =>
          /\ bumper
          /\ cmds = <<>>
          /\ Executing(SequenceOne)
          /\ ret' = Status(SequenceOne, FAILURE)
          /\ mode' = "ret"
          /\ cmds' = <<>>
     /\ (mode = "ret" /\ ForwardFailed) =>
          /\ Executing(Root)
          /\ ev' = Calls(SequenceTwo, None)
          /\ running_child'[Root] = SequenceTwo
          /\ mode' = "loop"
          /\ ret' = ret
          /\ cmds' = <<>>
     /\ (mode = "loop" /\ ForwardFailed /\ Executing(Root)) =>
          /\ ev' = Calls(None, SequenceTwo)
          /\ mode' = "start"
          /\ ret' = ret
          /\ cmds' = <<>>
     /\ (mode = "start" /\ ForwardFailed) =>
          /\ Executing(SequenceTwo)
          /\ ev' = Calls(GoBack, None)
          /\ running_child'[SequenceTwo] = GoBack
          /\ mode' = "loop"
          /\ ret' = ret
          /\ cmds' = <<>>
     /\ (mode = "loop" /\ ForwardFailed /\ Executing(SequenceTwo)) =>
          /\ ev' = Calls(None, GoBack)
          /\ ret' = Status(GoBack, RUNNING)
          /\ cmds' = <<Backward>>
     /\ (mode = "ret" /\ ret.status = RUNNING /\ stack # <<>>) =>
          /\ ret'.status = RUNNING
          /\ mode' = "ret"
          /\ ev' = Calls(None, None)
          /\ cmds' = cmds
     /\ (mode = "ret" /\ stack = <<>> /\ last[GoBack] # "NotEntered"
           /\ nexec[GoBack] = 1) =>
          /\ bumper
          /\ last[SequenceOne] = FAILURE
          /\ ret = Status(Root, RUNNING)
          /\ cmds = <<Backward>>]_vars
\* The end of an update in which MoveInSpiralNode failed on a later contact:
\* GoBackNode, its counter past GO_BACK_TIME, was entered and executed once.
C19_Witness ==
  /\ mode = "ret"
  /\ stack = <<>>
  /\ bumper
  /\ last[MoveForward] = SUCCESS
  /\ last[MoveInSpiral] = FAILURE
  /\ last[SequenceOne] = FAILURE
  /\ nexec[GoBack] = 1
  /\ (call_count[GoBack] - 1) * SAMPLE_TIME > GO_BACK_TIME
  /\ ret = Status(Root, RUNNING)
  /\ cmds = <<Backward>>

\* ------------------------------------------------ one update's calls
\* C20: an update of the machine calls change_state at most once and
\* set_velocity exactly once, and the command is the one of the state that
\* is current when the update returns.
C20_OneChangeOneCommand ==
  fsm_hist.calls # <<>> =>
    /\ Cardinality(ChangeStates(fsm_hist.calls)) <= 1
    /\ Cardinality(ChangeStates(fsm_hist.calls)) = 1 <=> ChangedState
    /\ Len(fsm_hist.cmds) = 1
    /\ fsm_hist.cmds = StateExecute(fsm_state)
    /\ Cardinality(Executes(fsm_hist.calls)) = 1
    /\ fsm_hist.calls[Len(fsm_hist.calls)] = Call("execute", fsm_state)
\* An update of MoveForwardState that read the bumper set at a time past the
\* threshold of the time-out edge: one change_state, to GoBackState.
C20_Witness ==
  /\ fsm_hist.checked.class = MoveForwardState
  /\ fsm_hist.checked.time > MOVE_FORWARD_TIME
  /\ fsm_hist.bumper
  /\ Cardinality(ChangeStates(fsm_hist.calls)) = 1
  /\ fsm_state.class = GoBackState
  /\ fsm_hist.cmds = <<Backward>>

====
